---- MODULE Spec2Model ----
(***************************************************************************)
(* Odds normalisation and arbitrage allocation of the surebet actor        *)
(* (detectOddsFormat, toDecimal, calculateSurebetAllocation, revision 4),  *)
(* and the page handler of its crawler (routes.ts).                        *)
(*                                                                         *)
(* JavaScript numbers are modelled as exact rationals extended with NaN    *)
(* and the two infinities; binary floating-point round-off (of the order   *)
(* of 1e-16 relative) is not modelled.  Strings are sequences of           *)
(* one-character strings over a small alphabet.                            *)
(***************************************************************************)
EXTENDS Integers, Sequences, FiniteSets, TLC

VARIABLES pc, raw, fmt, dec, event, totalStake, result, normalized,
          input, html, events, cursor, dataset, log

vars == <<pc, raw, fmt, dec, event, totalStake, result, normalized,
          input, html, events, cursor, dataset, log>>

\* the variables of the page handler
handler == <<input, html, events, cursor, dataset, log>>

(***************************************************************************)
(* Bounds of the model.                                                    *)
(***************************************************************************)
\* longest string enumerated exhaustively over Alphabet
MaxStrLen == 3
\* numeric raw odds k/q are enumerated for |k| <= MaxNumer
MaxNumer == 210
\* longest market (number of outcomes) given to the calculator
MaxOutcomes == 4
\* most match rows on a scraped page
MaxRows == 2
\* most odds blocks in a match row
MaxRowOdds == 3

(***************************************************************************)
(* JavaScript numbers: NaN, +/-Infinity and finite rationals n/d in lowest *)
(* terms with d > 0.                                                       *)
(***************************************************************************)
RECURSIVE GCD(_, _)
GCD(a, b) == IF b = 0 THEN a ELSE GCD(b, a % b)

AbsInt(k) == IF k < 0 THEN -k ELSE k

NaN == [t |-> "nan"]

Inf(s) == [t |-> "inf", s |-> s]

Reduced(n, d, g) == [t |-> "fin", n |-> n \div g, d |-> d \div g]

\* the number n/d, for d > 0
Fin(n, d) == Reduced(n, d, GCD(AbsInt(n), d))

IntNum(k) == Fin(k, 1)

Zero == IntNum(0)

One == IntNum(1)

Hundred == IntNum(100)

IsNaN(x) == x.t = "nan"

IsFinite(x) == x.t = "fin"

\* -1, 0 or 1; only for non-NaN x
Sign(x) ==
  IF x.t = "inf" THEN x.s
  ELSE IF x.n > 0 THEN 1 ELSE IF x.n < 0 THEN -1 ELSE 0

\* n1/d1 < n2/d2 for d1, d2 > 0, by integer parts and then the reciprocals
\* of the fractional parts, so that no product is formed
RECURSIVE FracLt(_, _, _, _)
FracLt(n1, d1, n2, d2) ==
  IF n1 \div d1 # n2 \div d2 THEN n1 \div d1 < n2 \div d2
  ELSE IF n2 % d2 = 0 THEN FALSE
  ELSE IF n1 % d1 = 0 THEN TRUE
  ELSE FracLt(d2, n2 % d2, d1, n1 % d1)

\* IEEE comparison: every comparison with NaN is false
Lt(x, y) ==
  /\ ~IsNaN(x)
  /\ ~IsNaN(y)
  /\ IF x.t = "inf" THEN x.s = -1 /\ ~(y.t = "inf" /\ y.s = -1)
     ELSE IF y.t = "inf" THEN y.s = 1
     ELSE FracLt(x.n, x.d, y.n, y.d)

Gt(x, y) == Lt(y, x)

Ge(x, y) == ~IsNaN(x) /\ ~IsNaN(y) /\ ~Lt(x, y)

Le(x, y) == Ge(y, x)

Neg(x) ==
  IF IsNaN(x) THEN NaN
  ELSE IF x.t = "inf" THEN Inf(-x.s)
  ELSE Fin(-x.n, x.d)

\* Math.abs
MathAbs(x) ==
  IF IsNaN(x) THEN NaN
  ELSE IF x.t = "inf" THEN Inf(1)
  ELSE Fin(AbsInt(x.n), x.d)

\* n1/d1 + n2/d2 over the least common denominator, g = gcd(d1, d2)
FracAdd(n1, d1, n2, d2, g) == Fin(n1 * (d2 \div g) + n2 * (d1 \div g), (d1 \div g) * d2)

\* (n1/d1) * (n2/d2), reduced crosswise first: g1 = gcd(|n1|, d2), g2 = gcd(|n2|, d1)
FracMul(n1, d1, n2, d2, g1, g2) ==
  Fin((n1 \div g1) * (n2 \div g2), (d1 \div g2) * (d2 \div g1))

Add(x, y) ==
  IF IsNaN(x) \/ IsNaN(y) THEN NaN
  ELSE IF x.t = "inf" THEN (IF y.t = "inf" /\ y.s # x.s THEN NaN ELSE x)
  ELSE IF y.t = "inf" THEN y
  ELSE FracAdd(x.n, x.d, y.n, y.d, GCD(x.d, y.d))

Sub(x, y) == Add(x, Neg(y))

Mul(x, y) ==
  IF IsNaN(x) \/ IsNaN(y) THEN NaN
  ELSE IF x.t = "inf" \/ y.t = "inf"
       THEN (IF Sign(x) * Sign(y) = 0 THEN NaN ELSE Inf(Sign(x) * Sign(y)))
  ELSE FracMul(x.n, x.d, y.n, y.d, GCD(AbsInt(x.n), y.d), GCD(AbsInt(y.n), x.d))

\* x / y; a zero divisor counts as +0 (every divisor of the program is a
\* Math.abs, a parsed unsigned integer, a decimal odd or the stake)
Div(x, y) ==
  IF IsNaN(x) \/ IsNaN(y) THEN NaN
  ELSE IF y.t = "inf" THEN (IF x.t = "inf" THEN NaN ELSE Zero)
  ELSE IF x.t = "inf" THEN (IF y.n < 0 THEN Inf(-x.s) ELSE x)
  ELSE IF y.n = 0 THEN (IF x.n = 0 THEN NaN ELSE Inf(Sign(x)))
  ELSE IF y.n < 0
    THEN FracMul(-x.n, x.d, y.d, -y.n, GCD(AbsInt(x.n), -y.n), GCD(y.d, x.d))
  ELSE FracMul(x.n, x.d, y.d, y.n, GCD(AbsInt(x.n), y.n), GCD(y.d, x.d))

IsInteger(x) == IsFinite(x) /\ x.d = 1

\* x % m = 0 for an integer x
DivisibleBy(x, m) == x.n % m = 0

\* parseFloat(x.toFixed(2)): nearest multiple of 0.01, a tie away from zero
\* (toFixed rounds the magnitude and picks the larger n on a tie)
ToFixed2(x) ==
  IF ~IsFinite(x) THEN x
  ELSE LET a == AbsInt(x.n)
           w == a \div x.d
           q == 100 * w + (200 * (a % x.d) + x.d) \div (2 * x.d)
       IN  Fin((IF x.n < 0 THEN -q ELSE q), 100)

(***************************************************************************)
(* JavaScript strings: sequences of one-character strings.  The alphabet   *)
(* has digits, both signs, the dot, the slash, the blank and one letter;   *)
(* it has no exponent letter and cannot spell "Infinity", so parseFloat is *)
(* modelled for the literals sign? digits? (. digits?)? only.              *)
(***************************************************************************)
Digits == {"0", "1", "2", "3", "4", "5", "6", "7", "8", "9"}

WhiteSpace == {" "}

Signs == {"+", "-"}

DigitVal(c) ==
  CASE c = "0" -> 0 [] c = "1" -> 1 [] c = "2" -> 2 [] c = "3" -> 3
    [] c = "4" -> 4 [] c = "5" -> 5 [] c = "6" -> 6 [] c = "7" -> 7
    [] c = "8" -> 8 [] c = "9" -> 9

Take(s, k) == SubSeq(s, 1, k)

Drop(s, k) == SubSeq(s, k + 1, Len(s))

\* length of the longest prefix of s whose characters are all in C
RECURSIVE SpanLen(_, _)
SpanLen(s, C) ==
  IF s # <<>> /\ Head(s) \in C THEN 1 + SpanLen(Tail(s), C) ELSE 0

RECURSIVE TrimStart(_)
TrimStart(s) ==
  IF s # <<>> /\ Head(s) \in WhiteSpace THEN TrimStart(Tail(s)) ELSE s

RECURSIVE TrimEnd(_)
TrimEnd(s) ==
  IF s # <<>> /\ s[Len(s)] \in WhiteSpace THEN TrimEnd(Take(s, Len(s) - 1)) ELSE s

\* String.prototype.trim
Trim(s) == TrimEnd(TrimStart(s))

\* the integer written by a string of digits
RECURSIVE DigitsValue(_)
DigitsValue(s) ==
  IF s = <<>> THEN 0
  ELSE 10 * DigitsValue(Take(s, Len(s) - 1)) + DigitVal(s[Len(s)])

RECURSIVE Pow10(_)
Pow10(k) == IF k = 0 THEN 1 ELSE 10 * Pow10(k - 1)

\* parseFloat: skips leading blanks, reads the longest prefix that is a
\* decimal literal and ignores whatever follows it; NaN if there is none
parseFloat(s) ==
  LET t    == TrimStart(s)
      neg  == t # <<>> /\ Head(t) = "-"
      body == IF t # <<>> /\ Head(t) \in Signs THEN Tail(t) ELSE t
      i    == SpanLen(body, Digits)
      rest == Drop(body, i)
      dot  == rest # <<>> /\ Head(rest) = "."
      f    == IF dot THEN SpanLen(Tail(rest), Digits) ELSE 0
      ip   == DigitsValue(Take(body, i))
      fp   == IF dot THEN DigitsValue(Take(Tail(rest), f)) ELSE 0
      mag  == ip * Pow10(f) + fp
  IN  IF i = 0 /\ f = 0 THEN NaN
      ELSE Fin((IF neg THEN -mag ELSE mag), Pow10(f))

\* parseInt(s, 10): skips leading blanks, reads sign and the digit prefix
parseInt(s) ==
  LET t    == TrimStart(s)
      neg  == t # <<>> /\ Head(t) = "-"
      body == IF t # <<>> /\ Head(t) \in Signs THEN Tail(t) ELSE t
      i    == SpanLen(body, Digits)
      mag  == DigitsValue(Take(body, i))
  IN  IF i = 0 THEN NaN ELSE IntNum(IF neg THEN -mag ELSE mag)

\* s.split('/'): the pieces between the slashes
RECURSIVE Split(_)
Split(s) ==
  LET k == SpanLen(s, {c \in {s[i] : i \in 1..Len(s)} : c # "/"})
  IN  IF k = Len(s) THEN <<s>>
      ELSE <<Take(s, k)>> \o Split(Drop(s, k + 1))

\* /^\d+\s*\/\s*\d+$/.test(t)
MatchesFractional(t) ==
  LET a  == SpanLen(t, Digits)
      r1 == Drop(t, a)
      r2 == Drop(r1, SpanLen(r1, WhiteSpace))
      r3 == IF r2 = <<>> THEN <<>> ELSE Tail(r2)
      r4 == Drop(r3, SpanLen(r3, WhiteSpace))
  IN  /\ a >= 1
      /\ r2 # <<>>
      /\ Head(r2) = "/"
      /\ r4 # <<>>
      /\ SpanLen(r4, Digits) = Len(r4)

\* /^[+-]\d+$/.test(t)
MatchesSigned(t) ==
  /\ Len(t) >= 2
  /\ Head(t) \in Signs
  /\ SpanLen(Tail(t), Digits) = Len(t) - 1

(***************************************************************************)
(* Raw odds: a JavaScript number or a string.                              *)
(***************************************************************************)
Num(x) == [typ |-> "number", num |-> x]

Str(s) == [typ |-> "string", str |-> s]

\* a returned value, and a thrown error
Return(v) == [ok |-> TRUE, value |-> v]

Throw(e) == [ok |-> FALSE, error |-> e]

DECIMAL_MIN == Fin(101, 100)

\* the guardrail of revision 2
DECIMAL_MAX_rev2 == IntNum(20)

DECIMAL_MAX == IntNum(1000)

\* the heuristics of revision 2: every number >= 100 is american
detectNumber_allAmerican(n) ==
  IF Ge(n, Hundred) THEN "american"
  ELSE IF Ge(n, One) THEN "decimal"
  ELSE IF Gt(n, Zero) /\ Lt(n, One) THEN "hongkong"
  ELSE IF Gt(MathAbs(n), One) THEN "indonesian"
  ELSE "malay"

\* detectOddsFormat on a number: the numeric heuristics
detectNumber(n) ==
  IF Ge(n, Hundred) /\ IsInteger(n)
    THEN (IF DivisibleBy(n, 5) THEN "american" ELSE "decimal")
  ELSE IF Ge(n, One) THEN "decimal"
  ELSE IF Gt(n, Zero) /\ Lt(n, One) THEN "hongkong"
  ELSE IF Gt(MathAbs(n), One) THEN "indonesian"
  ELSE "malay"

\* odd = parseFloat(trimmed); if (Number.isNaN(odd)) throw ...; then the
\* numeric heuristics
detectParsed(trimmed, odd) ==
  IF IsNaN(odd)
    THEN Throw([name |-> "Error", text |-> "Invalid odds value", trimmed |-> trimmed])
  ELSE Return(detectNumber(odd))

\* detectOddsFormat on a trimmed string: the two patterns, then parseFloat
detectTrimmed(trimmed) ==
  IF MatchesFractional(trimmed) THEN Return("fractional")
  ELSE IF MatchesSigned(trimmed) THEN Return("american")
  ELSE detectParsed(trimmed, parseFloat(trimmed))

detectString(s) == detectTrimmed(Trim(s))

detectOddsFormat(odd) ==
  IF odd.typ = "string" THEN detectString(odd.str)
  ELSE Return(detectNumber(odd.num))

\* typeof raw === 'number' ? raw : parseFloat(raw)
numberOrParseFloat(r) == IF r.typ = "number" THEN r.num ELSE parseFloat(r.str)

\* typeof raw === 'number' ? raw : parseInt(raw, 10)
numberOrParseInt(r) == IF r.typ = "number" THEN r.num ELSE parseInt(r.str)

\* the fraction alone, without the returned stake
fromFractional_ratio(r) ==
  LET parts == Split(r.str)
      num   == parseFloat(Trim(parts[1]))
      den   == parseFloat(Trim(parts[2]))
  IN  Div(num, den)

fromFractional(r) ==
  LET parts == Split(r.str)
      num   == parseFloat(Trim(parts[1]))
      den   == parseFloat(Trim(parts[2]))
  IN  Add(One, Div(num, den))

\* the favourite's formula forgotten: the sign is dropped
fromAmerican_unsigned(val) == Add(One, Div(MathAbs(val), Hundred))

fromAmerican(val) ==
  IF Gt(val, Zero) THEN Add(One, Div(val, Hundred))
  ELSE Add(One, Div(Hundred, MathAbs(val)))

\* the indonesian and the malay branch compute the same
fromAsian(v) ==
  IF Gt(v, Zero) THEN Add(v, One)
  ELSE Add(One, Div(One, MathAbs(v)))

\* the switch of toDecimal
convert(format, r) ==
  CASE format = "decimal"    -> numberOrParseFloat(r)
    [] format = "fractional" -> fromFractional(r)
    [] format = "american"   -> fromAmerican(numberOrParseInt(r))
    [] format = "hongkong"   -> Add(numberOrParseFloat(r), One)
    [] format = "indonesian" -> fromAsian(numberOrParseFloat(r))
    [] format = "malay"      -> fromAsian(numberOrParseFloat(r))

\* the guardrail of toDecimal: TRUE when the RangeError is thrown
suspicious(d) == Lt(d, DECIMAL_MIN) \/ Gt(d, DECIMAL_MAX)

\* the end of toDecimal: throw the RangeError or return dec
guard(d, r) ==
  IF suspicious(d)
    THEN Throw([name |-> "RangeError", text |-> "Suspicious decimal odd",
                dec |-> d, raw |-> r])
  ELSE Return(d)

\* toDecimal after its first line; an error thrown by detectOddsFormat is
\* not caught
convertDetected(format, r) ==
  IF ~format.ok THEN format ELSE guard(convert(format.value, r), r)

toDecimal(r) == convertDetected(detectOddsFormat(r), r)

(***************************************************************************)
(* calculateSurebetAllocation (2- and 3-way markets).                      *)
(***************************************************************************)
\* the guard of the 2-way calculator: event.outcomes.length !== 2 rejects
supportedSize_twoOnly(n) == n = 2

\* n < 2 || n > 3 is the rejection; this is its negation
supportedSize(n) == ~(n < 2 \/ n > 3)

\* event.outcomes.map((o) => toDecimal(o.odd)) inside the try block: the
\* outcomes are converted in order and the first throw ends the map;
\* calls counts the toDecimal calls made
mapJoin(d, r) ==
  IF r.ok
    THEN [ok |-> TRUE, values |-> <<d.value>> \o r.values, calls |-> 1 + r.calls]
  ELSE [ok |-> FALSE, error |-> r.error, calls |-> 1 + r.calls]

RECURSIVE mapToDecimal(_)
\* a failed conversion goes on as NaN instead of ending the map
mapStep_coerce(d, rest) ==
  mapJoin((IF d.ok THEN d ELSE [ok |-> TRUE, value |-> NaN]), mapToDecimal(rest))

mapStep(d, rest) ==
  IF ~d.ok THEN [ok |-> FALSE, error |-> d.error, calls |-> 1]
  ELSE mapJoin(d, mapToDecimal(rest))

mapToDecimal(outcomes) ==
  IF outcomes = <<>> THEN [ok |-> TRUE, values |-> <<>>, calls |-> 0]
  ELSE mapStep(toDecimal(Head(outcomes).odd), Tail(outcomes))

\* decOdds.reduce((acc, o) => acc + 1 / o, 0)
RECURSIVE inverseSumFrom(_, _)
inverseSumFrom(acc, decOdds) ==
  IF decOdds = <<>> THEN acc
  ELSE inverseSumFrom(Add(acc, Div(One, Head(decOdds))), Tail(decOdds))

inverseSumOf(decOdds) == inverseSumFrom(Zero, decOdds)

\* inverseSum > 1: an implied sum of exactly 1 passes as arbitrage
noArbitrage_strict(inverseSum) == Gt(inverseSum, One)

\* the test made on the displayed percentage
noArbitrage_rounded(inverseSum) == Ge(ToFixed2(Mul(inverseSum, Hundred)), Hundred)

\* inverseSum >= 1
noArbitrage(inverseSum) == Ge(inverseSum, One)

\* profit / totalStake > 0.20
highMargin(profit, stake) == Gt(Div(profit, stake), Fin(20, 100))

MsgSize == [text |-> "Calculator supports only 2- or 3-way markets."]

MsgNoArb == [text |-> "No arbitrage opportunity for these odds."]

MsgHigh == [text |-> "Margin is extraordinarily high - double-check odds before betting."]

rejection(percentage, message) ==
  [isSurebet |-> FALSE, payout |-> Zero, profit |-> Zero,
   surebetPercentage |-> percentage, message |-> message]

\* parseFloat((inverseSum * 100).toFixed(2))
percentageOf(inverseSum) == ToFixed2(Mul(inverseSum, Hundred))

\* one leg of event.outcomes.map((out, idx) => ...)
leg(out, odd, payoutPerOutcome) ==
  [outcome |-> out.outcome, broker |-> out.broker, odd |-> ToFixed2(odd),
   stake |-> ToFixed2(Div(payoutPerOutcome, odd))]

\* the returned sure-bet; message: undefined is modelled as no message field
surebet(allocation, payoutPerOutcome, profit, inverseSum, high) ==
  IF high
    THEN [isSurebet |-> TRUE, allocation |-> allocation,
          payout |-> ToFixed2(payoutPerOutcome), profit |-> ToFixed2(profit),
          surebetPercentage |-> percentageOf(inverseSum), message |-> MsgHigh]
  ELSE [isSurebet |-> TRUE, allocation |-> allocation,
        payout |-> ToFixed2(payoutPerOutcome), profit |-> ToFixed2(profit),
        surebetPercentage |-> percentageOf(inverseSum)]

\* the legs listed from the last outcome to the first
allocateWith_reversed(outcomes, decOdds, inverseSum, stake, payoutPerOutcome, profit) ==
  surebet([i \in 1..Len(outcomes) |->
             leg(outcomes[Len(outcomes) + 1 - i], decOdds[Len(outcomes) + 1 - i],
                 payoutPerOutcome)],
          payoutPerOutcome, profit, inverseSum, highMargin(profit, stake))

\* the sure-bet branch once payoutPerOutcome = totalStake / inverseSum and
\* profit = payoutPerOutcome - totalStake are known
allocateWith(outcomes, decOdds, inverseSum, stake, payoutPerOutcome, profit) ==
  surebet([i \in 1..Len(outcomes) |-> leg(outcomes[i], decOdds[i], payoutPerOutcome)],
          payoutPerOutcome, profit, inverseSum, highMargin(profit, stake))

allocatePayout(outcomes, decOdds, inverseSum, stake, payoutPerOutcome) ==
  allocateWith(outcomes, decOdds, inverseSum, stake, payoutPerOutcome,
               Sub(payoutPerOutcome, stake))

allocate(outcomes, decOdds, inverseSum, stake) ==
  allocatePayout(outcomes, decOdds, inverseSum, stake, Div(stake, inverseSum))

\* the test of revision 2: a margin above 20 % is rejected as bad feed
decide_marginCap(outcomes, decOdds, inverseSum, stake) ==
  IF noArbitrage(inverseSum) \/ Gt(Sub(One, inverseSum), Fin(20, 100))
    THEN rejection(percentageOf(inverseSum), MsgNoArb)
  ELSE allocate(outcomes, decOdds, inverseSum, stake)

\* the arbitrage test on inverseSum
decide(outcomes, decOdds, inverseSum, stake) ==
  IF noArbitrage(inverseSum) THEN rejection(percentageOf(inverseSum), MsgNoArb)
  ELSE allocate(outcomes, decOdds, inverseSum, stake)

\* what follows the try block
evaluate(outcomes, decOdds, stake) ==
  decide(outcomes, decOdds, inverseSumOf(decOdds), stake)

\* the catch block, or the evaluation of the converted odds
afterConversion(outcomes, conv, stake) ==
  IF ~conv.ok THEN rejection(Zero, conv.error)
  ELSE evaluate(outcomes, conv.values, stake)

calculateSurebetAllocation(ev, stake) ==
  IF ~supportedSize(Len(ev.outcomes)) THEN rejection(Zero, MsgSize)
  ELSE afterConversion(ev.outcomes, mapToDecimal(ev.outcomes), stake)

\* the number of toDecimal calls one calculateSurebetAllocation call makes
toDecimalCalls(ev) ==
  IF ~supportedSize(Len(ev.outcomes)) THEN 0
  ELSE mapToDecimal(ev.outcomes).calls

(***************************************************************************)
(* The inputs the calls are made with.                                     *)
(***************************************************************************)
Alphabet == {"0", "1", "2", "5", "+", "-", ".", "/", " ", "a"}

ShortStrings == UNION {[1..n -> Alphabet] : n \in 0..MaxStrLen}

NotableStrings ==
  { <<"-", "1", "2", "5">>, <<"+", "1", "5", "0">>, <<"2", ".", "5", "a">>,
    <<"1", ".", "0", "1">>, <<"1", ".", "0", "0">>, <<"1", "0", "0", "0">>,
    <<"1", "0", "0", "1">>, <<"1", "0", "0", "5">>, <<"1", "0", "0", ".", "5">>,
    <<"-", "1", ".", "2", "5">>, <<"-", "1", "2", "5", ".", "0">>,
    <<"1", "1", " ", "/", " ", "4">>, <<" ", "2", ".", "1", "0", " ">>,
    <<"9", "9", "9", "/", "1">>, <<"1", "0", "0", "0", "/", "1">>,
    <<"1", "/", "1", "0", "0">>, <<"1", "/", "1", "0", "1">>,
    <<"+", "9", "9", "9", "0", "0">>, <<"+", "9", "9", "9", "0", "1">> }

Denominators == {1, 2, 100}

GridNumbers == {Fin(k, q) : k \in (-MaxNumer)..MaxNumer, q \in Denominators}

NotableNumbers ==
  { NaN, Inf(1), Inf(-1), IntNum(1000), IntNum(1001), IntNum(1005),
    Fin(2001, 2), Fin(1009, 1000), Fin(100001, 100), IntNum(-1000) }

RawOdds ==
  {Num(x) : x \in GridNumbers \cup NotableNumbers}
    \cup {Str(s) : s \in ShortStrings \cup NotableStrings}

\* the raw odds the markets are priced with
MarketOdds ==
  { Num(IntNum(2)), Num(IntNum(34)), Num(Fin(21, 10)), Num(Fin(41, 20)),
    Num(Fin(19, 10)), Num(Fin(10001, 5000)), Str(<<"+", "1", "5", "0">>),
    Str(<<"a">>), Num(Zero), Num(NaN) }

Stakes == {IntNum(100), IntNum(1), Zero, IntNum(-100)}

\* the market whose i-th outcome is priced odds[i]
Market(odds) ==
  [outcomes |-> [i \in 1..Len(odds) |->
     [outcome |-> <<"label", i>>, odd |-> odds[i], broker |-> <<"bookmaker", i>>]]]

Markets == {Market(odds) : odds \in UNION {[1..n -> MarketOdds] : n \in 0..MaxOutcomes}}

(***************************************************************************)
(* The state machine: a caller makes one call at a time of one of the      *)
(* three exported functions and then drops the result; the functions keep  *)
(* nothing between calls.                                                  *)
(***************************************************************************)
None == [typ |-> "none"]

Init ==
  /\ pc = "idle"
  /\ raw = None
  /\ fmt = None
  /\ dec = None
  /\ event = None
  /\ totalStake = None
  /\ result = None
  /\ normalized = 0
  /\ input = None
  /\ html = <<>>
  /\ events = <<>>
  /\ cursor = 0
  /\ dataset = <<>>
  /\ log = <<>>

\* a call detectOddsFormat(r)
Detect ==
  /\ pc = "idle"
  /\ \E r \in RawOdds :
       /\ raw' = r
       /\ fmt' = detectOddsFormat(r)
  /\ pc' = "detected"
  /\ UNCHANGED <<dec, event, totalStake, result, normalized>>
  /\ UNCHANGED handler

\* a call toDecimal(r)
Normalize ==
  /\ pc = "idle"
  /\ \E r \in RawOdds :
       /\ raw' = r
       /\ dec' = toDecimal(r)
  /\ pc' = "normalized"
  /\ UNCHANGED <<fmt, event, totalStake, result, normalized>>
  /\ UNCHANGED handler

\* a call calculateSurebetAllocation(ev, stake)
Calculate ==
  /\ pc = "idle"
  /\ \E ev \in Markets, stake \in Stakes :
       /\ event' = ev
       /\ totalStake' = stake
       /\ result' = calculateSurebetAllocation(ev, stake)
       /\ normalized' = toDecimalCalls(ev)
  /\ pc' = "calculated"
  /\ UNCHANGED <<raw, fmt, dec>>
  /\ UNCHANGED handler

\* the caller drops the result; nothing of the call is kept
Forget ==
  /\ pc # "idle"
  /\ pc' = "idle"
  /\ raw' = None
  /\ fmt' = None
  /\ dec' = None
  /\ event' = None
  /\ totalStake' = None
  /\ result' = None
  /\ normalized' = 0
  /\ UNCHANGED handler

Next ==
  \/ Detect
  \/ Normalize
  \/ Calculate
  \/ Forget

Spec == Init /\ [][Next]_vars

(***************************************************************************)
(* The page handler of the crawler (routes.ts): the page content is parsed *)
(* into events, and the loop handles the events in page order, one event   *)
(* per step.  A match row is its position on the page and the texts of its *)
(* odds blocks; the descriptive fields of a row are tagged with that       *)
(* position.                                                               *)
(***************************************************************************)
\* the texts of the odds blocks
OddTexts == {<<"2", ".", "0", "0">>, <<"3", "4", ".", "0", "0">>}

\* the .btools-match rows a page can hold
Rows == UNION {[1..n -> OddTexts] : n \in 0..MaxRowOdds}

Htmls == UNION {[1..n -> Rows] : n \in 0..MaxRows}

\* the outcomes of a row: outcomes.push({outcome, odd: parseFloat(text), broker})
rowOutcomes(texts) ==
  [i \in 1..Len(texts) |->
     [outcome |-> <<"label", i>>, odd |-> Num(parseFloat(Trim(texts[i]))),
      broker |-> <<"bookmaker", i>>]]

\* the event of the k-th row
rowEvent(k, texts) ==
  [sport |-> <<"sport", k>>, country |-> <<"country", k>>,
   league |-> <<"league", k>>, date |-> <<"date", k>>,
   market |-> <<"market", k>>, home |-> <<"home", k>>, away |-> <<"away", k>>,
   outcomes |-> rowOutcomes(texts)]

\* the rows from the k-th on: an event only for a row of at least 2 outcomes
RECURSIVE parseRows(_, _)
parseRows(rows, k) ==
  IF k > Len(rows) THEN <<>>
  ELSE IF Len(rows[k]) >= 2 THEN <<rowEvent(k, rows[k])>> \o parseRows(rows, k + 1)
  ELSE parseRows(rows, k + 1)

parseSurebets(rows) == parseRows(rows, 1)

\* the record the handler saves
savedRecord(ev, allocation) ==
  [sport |-> ev.sport, country |-> ev.country, league |-> ev.league,
   date |-> ev.date, market |-> ev.market, home |-> ev.home, away |-> ev.away,
   outcomes |-> ev.outcomes, allocation |-> allocation]

\* the actor input of a run: Actor.getInput() with the defaults of the input
\* schema; the values of the README's example and two that make the
\* options bite
ActorInputs ==
  [stake : {IntNum(100), IntNum(250)}, minProfitPercentage : {IntNum(5), IntNum(90)},
   maxEvents : {0, 1}]

\* the handler has the content of a page
InitRoutes ==
  /\ pc = "content"
  /\ raw = None
  /\ fmt = None
  /\ dec = None
  /\ event = None
  /\ totalStake = None
  /\ result = None
  /\ normalized = 0
  /\ input \in ActorInputs
  /\ html \in Htmls
  /\ events = <<>>
  /\ cursor = 0
  /\ dataset = <<>>
  /\ log = <<>>

\* const events = parseSurebets(html)
Scrape ==
  /\ pc = "content"
  /\ events' = parseSurebets(html)
  /\ pc' = "loop"
  /\ UNCHANGED <<raw, fmt, dec, event, totalStake, result, normalized,
                 input, html, cursor, dataset, log>>

\* the record pushed whatever the allocation says
handleTwoWay_pushAlways(ev, allocation) ==
  /\ event' = ev
  /\ totalStake' = Hundred
  /\ result' = allocation
  /\ dataset' = Append(dataset, savedRecord(ev, allocation))
  /\ log' = Append(log, [calculated |-> TRUE, saved |-> TRUE])

\* the body of the loop on a 2-way event, once the allocation is computed
handleTwoWay(ev, allocation) ==
  /\ event' = ev
  /\ totalStake' = Hundred
  /\ result' = allocation
  /\ dataset' = IF allocation.isSurebet
                  THEN Append(dataset, savedRecord(ev, allocation))
                ELSE dataset
  /\ log' = Append(log, [calculated |-> TRUE, saved |-> allocation.isSurebet])

\* the body of the loop on any other event
skipEvent ==
  /\ log' = Append(log, [calculated |-> FALSE, saved |-> FALSE])
  /\ UNCHANGED <<event, totalStake, result, dataset>>

\* one iteration of for (const event of events)
HandleEvent ==
  /\ pc = "loop"
  /\ cursor < Len(events)
  /\ IF Len(events[cursor + 1].outcomes) = 2
       THEN handleTwoWay(events[cursor + 1],
                         calculateSurebetAllocation(events[cursor + 1], Hundred))
     ELSE skipEvent
  /\ cursor' = cursor + 1
  /\ UNCHANGED <<pc, raw, fmt, dec, normalized, input, html, events>>

\* the loop is over and the handler returns
HandlerReturns ==
  /\ pc = "loop"
  /\ cursor = Len(events)
  /\ pc' = "returned"
  /\ UNCHANGED <<raw, fmt, dec, event, totalStake, result, normalized>>
  /\ UNCHANGED handler

NextRoutes ==
  \/ Scrape
  \/ HandleEvent
  \/ HandlerReturns

SpecRoutes == InitRoutes /\ [][NextRoutes]_vars

(***************************************************************************)
(* What the claims speak of, stated from the market given to the call.     *)
(***************************************************************************)
Calculated == pc = "calculated"

Size == Len(event.outcomes)

\* toDecimal of the i-th outcome's raw odd
Normal(i) == toDecimal(event.outcomes[i].odd)

\* the odd normalizes: toDecimal returns instead of throwing
Normalizes(i) == Normal(i).ok

\* the odd is validly priced: toDecimal returns a real number of the
\* plausible range
ValidlyPriced(i) ==
  /\ Normalizes(i)
  /\ IsFinite(Normal(i).value)
  /\ Ge(Normal(i).value, DECIMAL_MIN)
  /\ Le(Normal(i).value, DECIMAL_MAX)

\* the implied probability 1/decimal_odd of the i-th outcome
Implied(i) == Div(One, Normal(i).value)

\* the implied sum of a market of 2 or 3 outcomes that all normalize
ImpliedSum ==
  IF Size = 2 THEN Add(Implied(1), Implied(2))
  ELSE Add(Add(Implied(1), Implied(2)), Implied(3))

TwoOrThree == Size = 2 \/ Size = 3

NoAllocation == "allocation" \notin DOMAIN result

NoMessage == "message" \notin DOMAIN result

\* is_surebet = false with zero payout and profit and no allocation
Rejected ==
  /\ result.isSurebet = FALSE
  /\ result.payout = Zero
  /\ result.profit = Zero
  /\ NoAllocation

(***************************************************************************)
(* C1: a market of 2 or 3 outcomes whose odds all normalize and whose      *)
(* implied sum is >= 1 is answered is_surebet = false with payout 0,        *)
(* profit 0, no allocation, the no-arbitrage reason and an edge percentage *)
(* equal to implied_sum * 100 rounded to two decimals, which is >= 100.    *)
(***************************************************************************)
C1_Case ==
  /\ Calculated
  /\ TwoOrThree
  /\ \A i \in 1..Size : Normalizes(i)
  /\ Ge(ImpliedSum, One)

C1_NoArbitrage ==
  C1_Case =>
    /\ Rejected
    /\ result.message = MsgNoArb
    /\ result.surebetPercentage = ToFixed2(Mul(ImpliedSum, Hundred))
    /\ Ge(result.surebetPercentage, Hundred)

C1_Witness == C1_Case /\ Size = 3 /\ Gt(ImpliedSum, One) /\ Rejected

(***************************************************************************)
(* C2: a market of 2 or 3 validly priced outcomes whose implied sum is < 1 *)
(* is answered is_surebet = true with the full allocation, payout and      *)
(* profit however large the margin; for a positive stake the advisory note *)
(* is attached exactly when profit / total_stake > 0.20, that is when      *)
(* 1 / implied_sum - 1 > 0.20.                                             *)
(***************************************************************************)
C2_Case ==
  /\ Calculated
  /\ TwoOrThree
  /\ \A i \in 1..Size : ValidlyPriced(i)
  /\ Lt(ImpliedSum, One)

C2_Margin == Sub(Div(One, ImpliedSum), One)

C2_HighMarginStillSurebet ==
  C2_Case =>
    /\ result.isSurebet = TRUE
    /\ ~NoAllocation
    /\ Len(result.allocation) = Size
    /\ result.payout = ToFixed2(Div(totalStake, ImpliedSum))
    /\ result.profit = ToFixed2(Sub(Div(totalStake, ImpliedSum), totalStake))
    /\ Gt(totalStake, Zero) =>
         IF Gt(C2_Margin, Fin(20, 100)) THEN ~NoMessage /\ result.message = MsgHigh
         ELSE NoMessage

C2_Witness ==
  /\ C2_Case
  /\ Gt(totalStake, Zero)
  /\ Gt(C2_Margin, Fin(20, 100))
  /\ result.isSurebet = TRUE
  /\ ~NoMessage

(***************************************************************************)
(* C3: in every sure-bet result (of a call with a positive total_stake)    *)
(* every leg returns the same payout if it wins: stake_i * decimal_odd_i   *)
(* is within 0.005 * decimal_odd_i of payout_per_outcome =                 *)
(* total_stake / implied_sum.                                              *)
(***************************************************************************)
LegReturn(i) == Mul(result.allocation[i].stake, Normal(i).value)

LegTolerance(i) == Mul(Fin(5, 1000), Normal(i).value)

\* |stake_i * decimal_odd_i - payout_per_outcome| <= 0.005 * decimal_odd_i
C3_LegsNear ==
  \A i \in 1..Len(result.allocation) :
    /\ Le(Sub(LegReturn(i), LegTolerance(i)), Div(totalStake, ImpliedSum))
    /\ Le(Div(totalStake, ImpliedSum), Add(LegReturn(i), LegTolerance(i)))

C3_EqualPayout ==
  (Calculated /\ result.isSurebet = TRUE /\ Gt(totalStake, Zero)) => C3_LegsNear

\* C3 for the markets of validly priced outcomes only
C3_EqualPayoutValidlyPriced == (C2_Case /\ Gt(totalStake, Zero)) => C3_LegsNear

(***************************************************************************)
(* C4: in every sure-bet result over 2 or 3 outcomes, for a positive       *)
(* total_stake, the sum of the returned two-decimal stakes differs from    *)
(* total_stake by at most two cents.                                       *)
(***************************************************************************)
StakeSum ==
  IF Len(result.allocation) = 2
    THEN Add(result.allocation[1].stake, result.allocation[2].stake)
  ELSE Add(Add(result.allocation[1].stake, result.allocation[2].stake),
           result.allocation[3].stake)

C4_SumNear == Le(MathAbs(Sub(StakeSum, totalStake)), Fin(2, 100))

C4_StakesSum ==
  (Calculated /\ result.isSurebet = TRUE /\ Gt(totalStake, Zero)) => C4_SumNear

\* C4 for the markets of validly priced outcomes only
C4_StakesSumValidlyPriced == (C2_Case /\ Gt(totalStake, Zero)) => C4_SumNear

(***************************************************************************)
(* C5: a market whose number of outcomes is not 2 or 3 is answered, with   *)
(* no odd normalized, is_surebet = false with payout 0, profit 0, no       *)
(* allocation and the unsupported-size reason; a market of exactly 2 or 3  *)
(* outcomes is evaluated: its odds are normalized and it is not rejected   *)
(* for its size.                                                           *)
(***************************************************************************)
C5_MarketSize ==
  Calculated =>
    IF TwoOrThree THEN normalized >= 1 /\ (NoMessage \/ result.message # MsgSize)
    ELSE Rejected /\ result.message = MsgSize /\ normalized = 0

C5_Witness == Calculated /\ Size = 4 /\ Rejected /\ result.message = MsgSize

(***************************************************************************)
(* C6: in a market of 2 or 3 outcomes in which the raw odd of at least one *)
(* outcome fails to normalize (toDecimal throws), the call returns         *)
(* is_surebet = false with payout 0, profit 0, no allocation and the       *)
(* message of the error thrown for the first such outcome, and no outcome  *)
(* after that one is normalized.                                           *)
(***************************************************************************)
C6_Case == Calculated /\ TwoOrThree /\ \E i \in 1..Size : ~Normalizes(i)

C6_FirstFailing == CHOOSE i \in 1..Size : ~Normalizes(i) /\ \A j \in 1..(i - 1) : Normalizes(j)

C6_NormalizationFailureRejects ==
  C6_Case =>
    /\ Rejected
    /\ result.message = Normal(C6_FirstFailing).error
    /\ normalized = C6_FirstFailing

C6_Witness ==
  /\ C6_Case
  /\ Size = 3
  /\ C6_FirstFailing = 2
  /\ ValidlyPriced(1)
  /\ ValidlyPriced(3)
  /\ Rejected
  /\ result.message.name = "RangeError"

(***************************************************************************)
(* C7: toDecimal either raises an error or returns a real number d with    *)
(* DECIMAL_MIN <= d <= DECIMAL_MAX; it never returns NaN, an infinity or a *)
(* value outside the range.                                                *)
(***************************************************************************)
C7_ToDecimalInRange ==
  (pc = "normalized" /\ dec.ok) =>
    /\ IsFinite(dec.value)
    /\ Ge(dec.value, DECIMAL_MIN)
    /\ Le(dec.value, DECIMAL_MAX)

(***************************************************************************)
(* The numeric value of a raw odd that is a number or a numeric string.    *)
(***************************************************************************)
\* digits, digits.digits, digits. or .digits
IsUnsignedNumeric(t) ==
  LET i    == SpanLen(t, Digits)
      rest == Drop(t, i)
      f    == IF rest = <<>> THEN 0 ELSE SpanLen(Tail(rest), Digits)
  IN  \/ i >= 1 /\ rest = <<>>
      \/ rest # <<>> /\ Head(rest) = "." /\ f = Len(rest) - 1 /\ i + f >= 1

RawIsUnsigned == raw.typ = "number" \/ IsUnsignedNumeric(Trim(raw.str))

\* a minus sign before an unsigned numeric string that is not all digits
RawIsNegativeDecimalString ==
  /\ raw.typ = "string"
  /\ Trim(raw.str) # <<>>
  /\ Head(Trim(raw.str)) = "-"
  /\ IsUnsignedNumeric(Tail(Trim(raw.str)))
  /\ ~MatchesSigned(Trim(raw.str))

RawValue == IF raw.typ = "number" THEN raw.num ELSE parseFloat(raw.str)

(***************************************************************************)
(* C8: for an unsigned value n (a number or an unsigned numeric string),   *)
(* detectOddsFormat returns 'american' when n is an integer >= 100         *)
(* divisible by 5, 'decimal' when n is another integer >= 100, a           *)
(* non-integer >= 100 or 1 <= n < 100, and 'hongkong' when 0 < n < 1.      *)
(***************************************************************************)
C8_Case == pc = "detected" /\ RawIsUnsigned /\ IsFinite(RawValue) /\ Gt(RawValue, Zero)

C8_Expected ==
  IF Lt(RawValue, One) THEN "hongkong"
  ELSE IF Lt(RawValue, Hundred) THEN "decimal"
  ELSE IF RawValue.d # 1 THEN "decimal"
  ELSE IF RawValue.n % 5 = 0 THEN "american"
  ELSE "decimal"

C9_Case ==
  /\ pc = "detected"
  /\ raw.typ = "number" \/ RawIsNegativeDecimalString
  /\ IsFinite(RawValue)
  /\ Lt(RawValue, Zero)

C9_Expected ==
  IF Ge(MathAbs(RawValue), Hundred) THEN "american"
  ELSE IF Gt(MathAbs(RawValue), One) THEN "indonesian"
  ELSE "malay"

C9_NegativeByMagnitude ==
  /\ C9_Case => fmt.ok /\ fmt.value = C9_Expected
  /\ (pc = "normalized" /\ raw = Num(IntNum(-125))) => dec = Return(Fin(180, 100))

(***************************************************************************)
(* C10: for a raw odd whose numeric value is 0 (the number 0 or a string   *)
(* such as "0" or "0.0") detectOddsFormat returns no notation tag: it      *)
(* fails with an error.                                                    *)
(***************************************************************************)
C10_Case == pc = "detected" /\ RawIsUnsigned /\ RawValue = Zero

C10_ZeroIsMalformed == C10_Case => ~fmt.ok

(***************************************************************************)
(* Strings that are a number from the first to the last character.         *)
(***************************************************************************)
\* an optional sign before an unsigned numeric string
IsNumeric(t) ==
  \/ IsUnsignedNumeric(t)
  \/ t # <<>> /\ Head(t) \in Signs /\ IsUnsignedNumeric(Tail(t))

\* a real number of the plausible range
InPlausibleRange(v) == IsFinite(v) /\ Ge(v, DECIMAL_MIN) /\ Le(v, DECIMAL_MAX)

\* an integer >= 100 divisible by 5: the numbers the tie-break reads as
\* american
TieBreakAmerican(v) == Ge(v, Hundred) /\ IsInteger(v) /\ DivisibleBy(v, 5)

(***************************************************************************)
(* C11: a string that matches neither <int>/<int> nor sign+digits and      *)
(* whose trimmed text is not entirely a number (such as "2.5abc") makes    *)
(* detectOddsFormat fail with an error; no string is classified from a     *)
(* numeric prefix.                                                         *)
(***************************************************************************)
C11_Case ==
  /\ pc = "detected"
  /\ raw.typ = "string"
  /\ ~MatchesFractional(Trim(raw.str))
  /\ ~MatchesSigned(Trim(raw.str))
  /\ ~IsNumeric(Trim(raw.str))

C11_WholeStringOrMalformed == C11_Case => ~fmt.ok

(***************************************************************************)
(* C12: for every decimal odd v with DECIMAL_MIN <= v <= DECIMAL_MAX,      *)
(* integer or not, toDecimal(v) returns v unchanged, and so                *)
(* toDecimal(toDecimal(x)) = toDecimal(x) whenever toDecimal(x) returns.   *)
(***************************************************************************)
C12_Case == pc = "normalized" /\ raw.typ = "number" /\ InPlausibleRange(raw.num)

C13_Points == DigitsValue(Tail(Trim(raw.str)))

C13_Signed == raw.typ = "string" /\ MatchesSigned(Trim(raw.str)) /\ C13_Points > 0

C13_Expected ==
  IF Head(Trim(raw.str)) = "+" THEN Fin(100 + C13_Points, 100)
  ELSE Fin(C13_Points + 100, C13_Points)

C13_SignedIsAmerican ==
  /\ (pc = "detected" /\ C13_Signed) => fmt = Return("american")
  /\ (pc = "normalized" /\ C13_Signed /\ InPlausibleRange(C13_Expected)) =>
       dec = Return(C13_Expected)
  /\ (pc = "normalized" /\ raw = Str(<<"-", "1", "2", "5">>)) => dec = Return(Fin(180, 100))
  /\ (pc = "normalized" /\ raw = Str(<<"+", "1", "5", "0">>)) => dec = Return(Fin(250, 100))

C13_Witness ==
  /\ pc = "normalized"
  /\ raw = Str(<<"-", "1", "2", "5">>)
  /\ dec = Return(Fin(9, 5))

(***************************************************************************)
(* C14: for a string "n/d" (blanks allowed around the slash) with n >= 0,  *)
(* d > 0 and 1 + n/d in the plausible range, detectOddsFormat returns      *)
(* 'fractional', toDecimal returns exactly 1 + n/d, and the implied        *)
(* probability 1/toDecimal equals d/(n + d).                               *)
(***************************************************************************)
\* the digits before the slash
C14_Numerator == DigitsValue(Take(Trim(raw.str), SpanLen(Trim(raw.str), Digits)))

\* the digits after the slash: what follows the last character that is no digit
RECURSIVE TrailingDigits(_)
TrailingDigits(t) ==
  IF t # <<>> /\ t[Len(t)] \in Digits
    THEN Append(TrailingDigits(Take(t, Len(t) - 1)), t[Len(t)])
  ELSE <<>>

C14_Denominator == DigitsValue(TrailingDigits(Trim(raw.str)))

C14_Fraction ==
  /\ raw.typ = "string"
  /\ MatchesFractional(Trim(raw.str))
  /\ C14_Denominator > 0
  /\ InPlausibleRange(Fin(C14_Numerator + C14_Denominator, C14_Denominator))

C14_FractionalRoundTrip ==
  /\ (pc = "detected" /\ C14_Fraction) => fmt = Return("fractional")
  /\ (pc = "normalized" /\ C14_Fraction) =>
       /\ dec = Return(Fin(C14_Numerator + C14_Denominator, C14_Denominator))
       /\ Div(One, dec.value) = Fin(C14_Denominator, C14_Numerator + C14_Denominator)

C14_Witness ==
  /\ pc = "normalized"
  /\ raw = Str(<<"1", "1", " ", "/", " ", "4">>)
  /\ C14_Fraction
  /\ dec = Return(Fin(15, 4))
  /\ Div(One, dec.value) = Fin(4, 15)

(***************************************************************************)
(* C15: a call with a non-positive total stake fails with a hard error; it *)
(* never returns a result with is_surebet = true.                          *)
(***************************************************************************)
C15_Case == Calculated /\ Le(totalStake, Zero)

C15_NonPositiveStakeNeverSurebet == C15_Case => ~result.isSurebet

(***************************************************************************)
(* C16: the market priced 2.00 and 34.00 with a total stake of 100 is      *)
(* answered is_surebet = true with payout 188.89, profit 88.89, the stakes *)
(* 94.44 and 5.56 in the order of the outcomes and surebetPercentage       *)
(* 52.94; neither odd is rejected as implausible.                          *)
(***************************************************************************)
C16_Case ==
  /\ Calculated
  /\ event = Market(<<Num(IntNum(2)), Num(IntNum(34))>>)
  /\ totalStake = Hundred

C16_Expected ==
  /\ result.isSurebet
  /\ result.payout = Fin(18889, 100)
  /\ result.profit = Fin(8889, 100)
  /\ Len(result.allocation) = 2
  /\ result.allocation[1].odd = IntNum(2)
  /\ result.allocation[1].stake = Fin(9444, 100)
  /\ result.allocation[2].odd = IntNum(34)
  /\ result.allocation[2].stake = Fin(556, 100)
  /\ result.surebetPercentage = Fin(5294, 100)

C16_ReadmeExample == C16_Case => C16_Expected

C16_Witness == C16_Case /\ C16_Expected

(***************************************************************************)
(* C17: a result has an allocation exactly when is_surebet = true; the     *)
(* allocation has one leg per outcome of the market, in the order of the   *)
(* outcomes, each leg with the label and the bookmaker of the outcome at   *)
(* its position.                                                           *)
(***************************************************************************)
C17_LegOf(i) ==
  /\ result.allocation[i].outcome = event.outcomes[i].outcome
  /\ result.allocation[i].broker = event.outcomes[i].broker

C17_AllocationShape ==
  Calculated =>
    /\ result.isSurebet <=> ~NoAllocation
    /\ ~NoAllocation =>
         /\ DOMAIN result.allocation = 1..Size
         /\ \A i \in 1..Size : C17_LegOf(i)

C17_Witness ==
  /\ Calculated
  /\ Size = 3
  /\ result.isSurebet
  /\ DOMAIN result.allocation = 1..3
  /\ \A i \in 1..3 : C17_LegOf(i)

(***************************************************************************)
(* C18: is_surebet is decided by the unrounded implied sum: a market of 2  *)
(* or 3 validly priced outcomes is answered is_surebet = true when its     *)
(* exact implied sum is < 1, even when the two-decimal edge percentage     *)
(* shows 100.00, and is_surebet = false when the sum is >= 1.              *)
(***************************************************************************)
C18_Case ==
  /\ Calculated
  /\ TwoOrThree
  /\ \A i \in 1..Size : ValidlyPriced(i)

C18_UnroundedDecision == C18_Case => (result.isSurebet <=> Lt(ImpliedSum, One))

C18_Witness ==
  /\ C18_Case
  /\ Lt(ImpliedSum, One)
  /\ result.isSurebet
  /\ result.surebetPercentage = Hundred

(***************************************************************************)
(* What the claims speak of in the page handler.                           *)
(***************************************************************************)
\* the number of outcomes of the k-th parsed event
OutcomesOf(k) == Len(events[k].outcomes)

\* the dataset holds a record of the k-th parsed event
Saved(k) ==
  \E j \in 1..Len(dataset) :
    /\ dataset[j].home = events[k].home
    /\ dataset[j].away = events[k].away
    /\ dataset[j].outcomes = events[k].outcomes

(***************************************************************************)
(* C20: for every parsed event of exactly 2 or 3 outcomes the page handler *)
(* calls calculateSurebetAllocation and, when the event is a sure-bet,     *)
(* saves it to the dataset; no event of 3 outcomes is skipped.             *)
(***************************************************************************)
C20_TwoAndThreeWayHandled ==
  \A k \in 1..cursor :
    OutcomesOf(k) \in {2, 3} =>
      /\ log[k].calculated
      /\ calculateSurebetAllocation(events[k], Hundred).isSurebet => Saved(k)

(***************************************************************************)
(* C21: every allocation saved to the dataset was computed with a total    *)
(* stake equal to the actor's stake input.                                 *)
(***************************************************************************)
C21_StakeIsInput ==
  \A j \in 1..Len(dataset) :
    dataset[j].allocation =
      calculateSurebetAllocation([outcomes |-> dataset[j].outcomes], input.stake)

(***************************************************************************)
(* C22: no sure-bet whose guaranteed profit is less than                   *)
(* minProfitPercentage percent of the total stake is saved to the dataset. *)
(***************************************************************************)
\* the sum of the stakes of the j-th saved record
RecordStakeSum(j) ==
  IF Len(dataset[j].allocation.allocation) = 2
    THEN Add(dataset[j].allocation.allocation[1].stake,
             dataset[j].allocation.allocation[2].stake)
  ELSE Add(Add(dataset[j].allocation.allocation[1].stake,
               dataset[j].allocation.allocation[2].stake),
           dataset[j].allocation.allocation[3].stake)

\* the profit of the j-th saved record in percent of its stakes
RecordEdge(j) == Mul(Div(dataset[j].allocation.profit, RecordStakeSum(j)), Hundred)

C22_BelowMinimumIgnored ==
  \A j \in 1..Len(dataset) : Ge(RecordEdge(j), input.minProfitPercentage)

(***************************************************************************)
(* C23: in a run with maxEvents = N > 0 the number of events saved to the  *)
(* dataset never exceeds N.                                                *)
(***************************************************************************)
C23_StopsAfterMaxEvents ==
  (pc \in {"loop", "returned"} /\ input.maxEvents > 0) =>
    Len(dataset) <= input.maxEvents

(***************************************************************************)
(* C24: the page handler pushes a record for an event only in the step in  *)
(* which calculateSurebetAllocation has returned is_surebet = true for     *)
(* that event; at most one record is pushed per event; the events are      *)
(* handled in page order; each record carries the event's sport, country,  *)
(* league, date, market, home, away and outcomes unchanged together with   *)
(* the allocation result; an event that is no sure-bet pushes nothing.     *)
(***************************************************************************)
\* the record r carries the fields of the event ev
Carries(r, ev) ==
  /\ r.sport = ev.sport
  /\ r.country = ev.country
  /\ r.league = ev.league
  /\ r.date = ev.date
  /\ r.market = ev.market
  /\ r.home = ev.home
  /\ r.away = ev.away
  /\ r.outcomes = ev.outcomes

\* the position among the parsed events of the event the j-th record is of
EventOf(j) == CHOOSE k \in 1..Len(events) : Carries(dataset[j], events[k])

C24_Records ==
  /\ Len(log) = cursor
  /\ \A j \in 1..Len(dataset) :
       /\ \E k \in 1..cursor : Carries(dataset[j], events[k])
       /\ log[EventOf(j)].calculated
       /\ log[EventOf(j)].saved
       /\ dataset[j].allocation.isSurebet
       /\ \A i \in 1..(j - 1) : EventOf(i) < EventOf(j)
  /\ \A k \in 1..cursor :
       log[k].saved => \E j \in 1..Len(dataset) : Carries(dataset[j], events[k])

C24_Push ==
  /\ cursor' \in {cursor, cursor + 1}
  /\ Len(log') = cursor'
  /\ dataset' # dataset =>
       /\ cursor' = cursor + 1
       /\ event' = events[cursor + 1]
       /\ result'.isSurebet
       /\ Len(dataset') = Len(dataset) + 1
       /\ SubSeq(dataset', 1, Len(dataset)) = dataset
       /\ Carries(dataset'[Len(dataset')], events[cursor + 1])
       /\ dataset'[Len(dataset')].allocation = result'
  /\ (cursor' = cursor + 1 /\ log'[cursor'].calculated /\ ~result'.isSurebet) =>
       dataset' = dataset
  /\ (cursor' = cursor + 1 /\ ~log'[cursor'].calculated) => dataset' = dataset

C24_PushOnlySurebets == []C24_Records /\ [][C24_Push]_vars

C24_Witness ==
  /\ pc = "returned"
  /\ cursor = 2
  /\ Len(dataset) = 1
  /\ Carries(dataset[1], events[2])
  /\ dataset[1].allocation = result
  /\ result.isSurebet
  /\ log[1].calculated
  /\ ~log[1].saved

(***************************************************************************)
(* C25: in every sure-bet result the reported profit is strictly positive  *)
(* and, for every leg i, the returned stake_i times decimal_odd_i is at    *)
(* least the sum of all returned stakes, also for margins and stakes so    *)
(* small that the rounding to cents is of the size of the profit.          *)
(***************************************************************************)
C25_Case == C2_Case /\ Gt(totalStake, Zero) /\ result.isSurebet

C25_ProfitPositive == Gt(result.profit, Zero)

C25_LegsCover == \A i \in 1..Size : Ge(LegReturn(i), StakeSum)

C25_LockedProfit == C25_Case => (C25_ProfitPositive /\ C25_LegsCover)

====
